---- MODULE Spec2Model ----
(***************************************************************************)
(* A model of src/mab.py: the multi-armed bandit policies MAB, UCB1, TS,   *)
(* SoftMax and the contextual router CMAB.                                 *)
(*                                                                         *)
(* One object is constructed (its class is chosen in Init) and its methods *)
(* are then called in any order with any arguments.  A Python dict is a    *)
(* sequence of <<key, value>> pairs in insertion order.  A real number is  *)
(* an integer count of 1/One, where One is divisible by every count an arm *)
(* can reach, so that the divisions the code makes are exact.              *)
(***************************************************************************)
EXTENDS Integers, Sequences, FiniteSets, TLC

\* ------------------------------------------------------------------ bounds
NumArms == 2
NumContexts == 1
MaxUpdates == 3
\* The cap on CMAB's update_reward calls (each also names a context).
MaxRouted == 2

\* ------------------------------------------------------------ Python values
\* Python's None: a value distinct from every arm, context key and number.
None == -1
\* The outcome of a call that raises (KeyError, ZeroDivisionError).
Raised == -2

Arms == 1..NumArms
\* CMAB's context keys: the default None and the keys 1..NumContexts.
Contexts == {None} \cup (1..NumContexts)

RECURSIVE Fact(_)
Fact(n) == IF n <= 1 THEN 1 ELSE n * Fact(n - 1)
\* The real 1.0 (thousandths, times a multiple of every reachable count).
One == 1000 * Fact(IF MaxUpdates > MaxRouted THEN MaxUpdates ELSE MaxRouted)
Half == One \div 2

\* Python's a/b on numbers.
Div(a, b) == IF b = 0 \/ a = Raised \/ b = Raised THEN Raised ELSE a \div b

\* ------------------------------------------------------------------- dicts
Keys(d) == [i \in DOMAIN d |-> d[i][1]]
KeySet(d) == {d[i][1] : i \in DOMAIN d}
Has(d, k) == k \in KeySet(d)
\* d[k]: raises KeyError on a missing key.
Get(d, k) == IF Has(d, k) THEN d[CHOOSE i \in DOMAIN d : d[i][1] = k][2] ELSE Raised
\* d[k] = v: an existing key keeps its place, a new key goes last.
Put(d, k, v) ==
    IF Has(d, k) THEN [i \in DOMAIN d |-> IF d[i][1] = k THEN <<k, v>> ELSE d[i]]
    ELSE Append(d, <<k, v>>)
\* d[k] += v
Add(d, k, v) == IF Has(d, k) THEN Put(d, k, Get(d, k) + v) ELSE d

\* --------------------------------------------------------------------- MAB
MAB_init == [total_rewards |-> <<>>, total_count |-> <<>>, average_reward |-> <<>>]

MAB_new_arm(self, arm) ==
    IF ~Has(self.total_rewards, arm)
    THEN [self EXCEPT !.total_rewards = Put(@, arm, 0), !.total_count = Put(@, arm, 0)]
    ELSE self

MAB_store_average(self, arm) ==
    [self EXCEPT !.average_reward =
        Put(@, arm, Div(Get(self.total_rewards, arm), Get(self.total_count, arm)))]

\* A variant that stores the average before it adds the reward.
MAB_update_reward_stale(self, arm, reward) ==
    LET s1 == MAB_new_arm(self, arm)
        s2 == [s1 EXCEPT !.total_count = Add(@, arm, 1)]
        s3 == MAB_store_average(s2, arm)
    IN  [s3 EXCEPT !.total_rewards = Add(@, arm, reward)]

MAB_update_reward(self, arm, reward) ==
    LET s1 == MAB_new_arm(self, arm)
        s2 == [s1 EXCEPT !.total_count = Add(@, arm, 1)]
        s3 == [s2 EXCEPT !.total_rewards = Add(@, arm, reward)]
    IN  MAB_store_average(s3, arm)

MAB_get_reward(self, arm) ==
    IF ~Has(self.average_reward, arm) THEN 0 ELSE Get(self.average_reward, arm)

MAB_get_arm_count(self, arm) ==
    IF ~Has(self.total_count, arm) THEN 0 ELSE Get(self.total_count, arm)

\* A variant that returns the last item of maximal value.
MaxItem_last(d) ==
    LET i == CHOOSE i \in DOMAIN d :
                 /\ \A j \in DOMAIN d : d[j][2] <= d[i][2]
                 /\ \A j \in DOMAIN d : j > i => d[j][2] < d[i][2]
    IN  d[i]

\* max(items, key=itemgetter(1)): the first item, in iteration order, whose
\* value no other item exceeds.
MaxItem(d) ==
    LET i == CHOOSE i \in DOMAIN d :
                 /\ \A j \in DOMAIN d : d[j][2] <= d[i][2]
                 /\ \A j \in DOMAIN d : j < i => d[j][2] < d[i][2]
    IN  d[i]

MAB_get_best_arm(self) ==
    IF Len(self.average_reward) = 0 THEN <<None, None>> ELSE MaxItem(self.average_reward)

\* -------------------------------------------------------------------- UCB1
UCB1_init == MAB_init @@ [beta |-> One, overall_total_count |-> 0, ucb |-> 0]

\* 1000 * sqrt(2 * ln(n) / n), rounded, for n = 1, 2, ...
UCB1_sqrt_table == <<0, 833, 856, 833, 802, 773, 746, 721, 699>>
\* math.sqrt(2*beta*math.log(n)/n) for the beta every UCB1 here is built with.
UCB1_bonus(beta, n) == UCB1_sqrt_table[n] * (One \div 1000)

\* A variant that counts an update overall only when the arm is new.
UCB1_update_reward_new_only(self, arm, reward) ==
    LET s1 == MAB_new_arm(self, arm)
        s2 == [s1 EXCEPT !.total_count = Add(@, arm, 1)]
        s3 == IF Has(self.total_rewards, arm) THEN s2
              ELSE [s2 EXCEPT !.overall_total_count = @ + 1]
        s4 == [s3 EXCEPT !.ucb = UCB1_bonus(s3.beta, Get(s3.total_count, arm))]
        ucb_reward == reward + s4.ucb
        s5 == [s4 EXCEPT !.total_rewards = Add(@, arm, ucb_reward)]
    IN  MAB_store_average(s5, arm)

UCB1_update_reward(self, arm, reward) ==
    LET s1 == MAB_new_arm(self, arm)
        s2 == [s1 EXCEPT !.total_count = Add(@, arm, 1)]
        s3 == [s2 EXCEPT !.overall_total_count = @ + 1]
        s4 == [s3 EXCEPT !.ucb = UCB1_bonus(s3.beta, Get(s3.total_count, arm))]
        ucb_reward == reward + s4.ucb
        s5 == [s4 EXCEPT !.total_rewards = Add(@, arm, ucb_reward)]
    IN  MAB_store_average(s5, arm)

UCB1_get_last_ucb(self) == self.ucb

\* ---------------------------------------------------------------------- TS
TS_init == [total_count |-> <<>>, alpha |-> <<>>, beta |-> <<>>, last_drawn |-> <<>>]

\* A variant that initialises the arm's record at every update.
TS_new_arm_always(self, arm) ==
    [self EXCEPT !.alpha = Put(@, arm, 1), !.beta = Put(@, arm, 1),
                 !.total_count = Put(@, arm, 0), !.last_drawn = Put(@, arm, 0)]

TS_new_arm(self, arm) ==
    IF ~Has(self.total_count, arm)
    THEN [self EXCEPT !.alpha = Put(@, arm, 1), !.beta = Put(@, arm, 1),
                      !.total_count = Put(@, arm, 0), !.last_drawn = Put(@, arm, 0)]
    ELSE self

\* A variant that adds 1 to beta whatever the reward.
TS_update_reward_beta(self, arm, reward) ==
    LET s1 == TS_new_arm(self, arm)
        s2 == [s1 EXCEPT !.total_count = Add(@, arm, 1)]
        s3 == [s2 EXCEPT !.alpha = Add(@, arm, reward)]
    IN  [s3 EXCEPT !.beta = Add(@, arm, 1)]

TS_update_reward(self, arm, reward) ==
    LET s1 == TS_new_arm(self, arm)
        s2 == [s1 EXCEPT !.total_count = Add(@, arm, 1)]
        s3 == [s2 EXCEPT !.alpha = Add(@, arm, reward)]
    IN  [s3 EXCEPT !.beta = Add(@, arm, 1 - reward)]

\* A variant without the test for an unknown arm: alpha[arm] raises KeyError.
TS_get_reward_unguarded(self, arm) ==
    IF ~Has(self.alpha, arm) THEN Raised
    ELSE Div((Get(self.alpha, arm) - 1) * One,
             Get(self.alpha, arm) - 1 + Get(self.beta, arm) - 1)

TS_get_reward(self, arm) ==
    IF ~Has(self.total_count, arm) THEN 0
    ELSE Div((Get(self.alpha, arm) - 1) * One,
             Get(self.alpha, arm) - 1 + Get(self.beta, arm) - 1)

TS_get_arm_count(self, arm) ==
    IF ~Has(self.total_count, arm) THEN 0 ELSE Get(self.total_count, arm)

\* A variant in which only a strictly larger sample replaces the best.
TS_replaces_strict(sample, value) == sample > value

\* The test of the selection loop: does this sample replace the running best?
TS_replaces(sample, value) == sample >= value

\* A variant that stores a sample only when it replaces the running best.
RECURSIVE TS_scan_only_best(_, _, _, _)
TS_scan_only_best(self, drawn, i, best_arm) ==
    IF i > Len(self.total_count) THEN [self |-> self, best_arm |-> best_arm]
    ELSE IF TS_replaces(drawn[i], best_arm.value)
         THEN TS_scan_only_best(
                  [self EXCEPT !.last_drawn = Put(@, self.total_count[i][1], drawn[i])],
                  drawn, i + 1, [arm |-> self.total_count[i][1], value |-> drawn[i]])
         ELSE TS_scan_only_best(self, drawn, i + 1, best_arm)

\* The loop of get_best_arm from its i-th iteration on; drawn[i] is what
\* random.betavariate returns in the i-th iteration, which is the value of
\* self.last_drawn[arm] the iteration stores and then compares.
RECURSIVE TS_scan(_, _, _, _)
TS_scan(self, drawn, i, best_arm) ==
    IF i > Len(self.total_count) THEN [self |-> self, best_arm |-> best_arm]
    ELSE TS_scan([self EXCEPT !.last_drawn = Put(@, self.total_count[i][1], drawn[i])],
                 drawn, i + 1,
                 IF TS_replaces(drawn[i], best_arm.value)
                 THEN [arm |-> self.total_count[i][1], value |-> drawn[i]]
                 ELSE best_arm)

\* The object after the call and the pair returned.
TS_get_best_arm(self, drawn) ==
    LET end == TS_scan(self, drawn, 1, [arm |-> None, value |-> 0])
    IN  [self |-> end.self,
         ret  |-> IF end.best_arm.arm = None THEN <<None, None>>
                  ELSE <<end.best_arm.arm, end.best_arm.value>>]

TS_get_last_drawn_value(self, arm) ==
    IF ~Has(self.last_drawn, arm) THEN 0 ELSE Get(self.last_drawn, arm)

\* ----------------------------------------------------------------- SoftMax
SoftMax_init == MAB_init @@ [tau |-> One]

\* choice is what random.choices returns: every weight exp(reward/tau) is
\* positive, so it is any arm of arm_list.
SoftMax_get_best_arm(self, choice) ==
    IF Len(self.average_reward) = 0 THEN <<None, None>>
    ELSE <<choice, Get(self.average_reward, choice)>>

\* -------------------------------------------------------------------- CMAB
CMAB_init == [mab |-> <<>>]

\* A variant that builds a new UCB1 at every update.
CMAB_new_context_always(self, context) ==
    [self EXCEPT !.mab = Put(@, context, UCB1_init)]

CMAB_new_context(self, context) ==
    IF ~Has(self.mab, context) THEN [self EXCEPT !.mab = Put(@, context, UCB1_init)]
    ELSE self

\* A variant that files every update under the default context.
CMAB_update_reward_default(self, arm, reward, context) ==
    LET s1 == CMAB_new_context(self, None)
    IN  [s1 EXCEPT !.mab = Put(@, None, UCB1_update_reward(Get(@, None), arm, reward))]

CMAB_update_reward(self, arm, reward, context) ==
    LET s1 == CMAB_new_context(self, context)
    IN  [s1 EXCEPT !.mab = Put(@, context, UCB1_update_reward(Get(@, context), arm, reward))]

CMAB_get_reward(self, arm, context) ==
    IF ~Has(self.mab, context) THEN 0 ELSE MAB_get_reward(Get(self.mab, context), arm)

CMAB_get_best_arm(self, context) ==
    IF ~Has(self.mab, context) THEN <<None, None>>
    ELSE MAB_get_best_arm(Get(self.mab, context))

\* ------------------------------------------------------------ the program
VARIABLES
    cls,    \* the class of the object constructed
    obj,    \* the object: a record of its fields
    op,     \* the last call made on it: method name and arguments
    ret,    \* what that call returned
    hist    \* what update_reward has been passed so far

vars == <<cls, obj, op, ret, hist>>

Classes == {"MAB", "UCB1", "TS", "SoftMax", "CMAB"}

Construct(c) ==
    CASE c = "MAB" -> MAB_init
      [] c = "UCB1" -> UCB1_init
      [] c = "TS" -> TS_init
      [] c = "SoftMax" -> SoftMax_init
      [] c = "CMAB" -> CMAB_init

\* The rewards passed: 0 or 1 to TS (its contract), 0, 0.5 or 1.0 otherwise.
Rewards(c) == IF c = "TS" THEN {0, 1} ELSE {0, Half, One}
\* The values random.betavariate returns lie in [0, 1]; 0.0 is one of them.
Samples == {0, One}

Call(name, arm, context, drawn) ==
    [name |-> name, arm |-> arm, context |-> context, drawn |-> drawn]

\* The record of one more update_reward(arm, reward) under context.
Passed(h, arm, reward, context) ==
    [n     |-> h.n + 1,
     sum   |-> [h.sum EXCEPT ![<<context, arm>>] = @ + reward],
     cnt   |-> [h.cnt EXCEPT ![<<context, arm>>] = @ + 1],
     order |-> IF h.cnt[<<context, arm>>] = 0 THEN Append(h.order, <<context, arm>>)
               ELSE h.order]

Init ==
    /\ cls \in Classes
    /\ obj = Construct(cls)
    /\ op = Call("__init__", None, None, <<>>)
    /\ ret = None
    /\ hist = [n |-> 0, sum |-> [k \in Contexts \X Arms |-> 0],
               cnt |-> [k \in Contexts \X Arms |-> 0], order |-> <<>>]

Update(arm, reward, context, self) ==
    /\ hist.n < (IF cls = "CMAB" THEN MaxRouted ELSE MaxUpdates)
    /\ obj' = self
    /\ op' = Call("update_reward", arm, context, <<>>)
    /\ ret' = None
    /\ hist' = Passed(hist, arm, reward, context)
    /\ UNCHANGED cls

Query(name, arm, context, value) ==
    /\ op' = Call(name, arm, context, <<>>)
    /\ ret' = value
    /\ UNCHANGED <<cls, obj, hist>>

Call_MAB_update_reward ==
    /\ cls \in {"MAB", "SoftMax"}
    /\ \E arm \in Arms, reward \in Rewards(cls) :
           Update(arm, reward, None, MAB_update_reward(obj, arm, reward))

Call_MAB_get_reward ==
    /\ cls \in {"MAB", "UCB1", "SoftMax"}
    /\ \E arm \in Arms : Query("get_reward", arm, None, MAB_get_reward(obj, arm))

Call_MAB_get_arm_count ==
    /\ cls \in {"MAB", "UCB1", "SoftMax"}
    /\ \E arm \in Arms : Query("get_arm_count", arm, None, MAB_get_arm_count(obj, arm))

Call_MAB_get_best_arm ==
    /\ cls \in {"MAB", "UCB1"}
    /\ Query("get_best_arm", None, None, MAB_get_best_arm(obj))

Call_UCB1_update_reward ==
    /\ cls = "UCB1"
    /\ \E arm \in Arms, reward \in Rewards(cls) :
           Update(arm, reward, None, UCB1_update_reward(obj, arm, reward))

Call_UCB1_get_last_ucb ==
    /\ cls = "UCB1"
    /\ Query("get_last_ucb", None, None, UCB1_get_last_ucb(obj))

Call_TS_update_reward ==
    /\ cls = "TS"
    /\ \E arm \in Arms, reward \in Rewards(cls) :
           Update(arm, reward, None, TS_update_reward(obj, arm, reward))

Call_TS_get_reward ==
    /\ cls = "TS"
    /\ \E arm \in Arms : Query("get_reward", arm, None, TS_get_reward(obj, arm))

Call_TS_get_arm_count ==
    /\ cls = "TS"
    /\ \E arm \in Arms : Query("get_arm_count", arm, None, TS_get_arm_count(obj, arm))

Call_TS_get_best_arm ==
    /\ cls = "TS"
    /\ \E drawn \in [1..Len(obj.total_count) -> Samples] :
           LET r == TS_get_best_arm(obj, drawn)
           IN  /\ obj' = r.self
               /\ op' = Call("get_best_arm", None, None, drawn)
               /\ ret' = r.ret
               /\ UNCHANGED <<cls, hist>>

Call_TS_get_last_drawn_value ==
    /\ cls = "TS"
    /\ \E arm \in Arms :
           Query("get_last_drawn_value", arm, None, TS_get_last_drawn_value(obj, arm))

Call_SoftMax_get_best_arm ==
    /\ cls = "SoftMax"
    /\ \/ /\ Len(obj.average_reward) = 0
          /\ Query("get_best_arm", None, None, SoftMax_get_best_arm(obj, None))
       \/ \E choice \in KeySet(obj.average_reward) :
              Query("get_best_arm", None, None, SoftMax_get_best_arm(obj, choice))

Call_CMAB_update_reward ==
    /\ cls = "CMAB"
    /\ \E arm \in Arms, reward \in Rewards(cls), context \in Contexts :
           Update(arm, reward, context, CMAB_update_reward(obj, arm, reward, context))

Call_CMAB_get_reward ==
    /\ cls = "CMAB"
    /\ \E arm \in Arms, context \in Contexts :
           Query("get_reward", arm, context, CMAB_get_reward(obj, arm, context))

Call_CMAB_get_best_arm ==
    /\ cls = "CMAB"
    /\ \E context \in Contexts :
           Query("get_best_arm", None, context, CMAB_get_best_arm(obj, context))

Next ==
    \/ Call_MAB_update_reward
    \/ Call_MAB_get_reward
    \/ Call_MAB_get_arm_count
    \/ Call_MAB_get_best_arm
    \/ Call_UCB1_update_reward
    \/ Call_UCB1_get_last_ucb
    \/ Call_TS_update_reward
    \/ Call_TS_get_reward
    \/ Call_TS_get_arm_count
    \/ Call_TS_get_best_arm
    \/ Call_TS_get_last_drawn_value
    \/ Call_SoftMax_get_best_arm
    \/ Call_CMAB_update_reward
    \/ Call_CMAB_get_reward
    \/ Call_CMAB_get_best_arm

Spec == Init /\ [][Next]_vars

\* ----------------------------------------------------------------- claims
\* The key of hist for an arm of a policy that takes no context.
K(arm) == <<None, arm>>
\* The arms update_reward has been passed under context, in the order of
\* their first update.
FirstUpdated(context) ==
    LET own == SelectSeq(hist.order, LAMBDA k : k[1] = context)
    IN  [i \in DOMAIN own |-> own[i][2]]
Pos(seq, x) == CHOOSE i \in DOMAIN seq : seq[i] = x
RECURSIVE SumValues(_)
SumValues(d) == IF d = <<>> THEN 0 ELSE d[1][2] + SumValues(Tail(d))

\* C1: in every reachable state of a TS object (update_reward with rewards 0
\* or 1, interleaved with get_best_arm), every arm with a record has
\* alpha[arm] + beta[arm] = total_count[arm] + 2.
C1_ThompsonIdentity ==
    cls = "TS" =>
        \A arm \in KeySet(obj.total_count) :
            /\ Has(obj.alpha, arm) /\ Has(obj.beta, arm)
            /\ Get(obj.alpha, arm) + Get(obj.beta, arm) = Get(obj.total_count, arm) + 2

\* update(A,1), update(A,1), update(A,0), then a selection: alpha 3, beta 2,
\* get_reward 2/3.
C1_Witness ==
    /\ cls = "TS"
    /\ op.name = "get_best_arm"
    /\ \E arm \in Arms :
           /\ Get(obj.alpha, arm) = 3
           /\ Get(obj.beta, arm) = 2
           /\ 3 * TS_get_reward(obj, arm) = 2 * One

\* C2: after any sequence of MAB.update_reward calls, for every arm updated,
\* get_reward(arm) is the sum of the rewards passed for it divided by the
\* number of its updates, and the stored estimate agrees with the stored
\* cumulative reward and count.
C2_MeanConsistency ==
    cls \in {"MAB", "SoftMax"} =>
        \A arm \in Arms :
            hist.cnt[K(arm)] > 0 =>
                /\ Has(obj.average_reward, arm)
                /\ MAB_get_reward(obj, arm) * hist.cnt[K(arm)] = hist.sum[K(arm)]
                /\ Get(obj.average_reward, arm) * Get(obj.total_count, arm)
                       = Get(obj.total_rewards, arm)

\* update(A,1.0), update(A,0.0), update(B,0.5): both estimates 0.5, count 2.
C2_Witness ==
    /\ cls = "MAB"
    /\ \E a, b \in Arms :
           /\ a # b
           /\ hist.cnt[K(a)] = 2 /\ hist.sum[K(a)] = One
           /\ hist.cnt[K(b)] = 1 /\ hist.sum[K(b)] = Half
           /\ MAB_get_reward(obj, a) = Half
           /\ MAB_get_reward(obj, b) = Half
           /\ MAB_get_arm_count(obj, a) = 2

\* A UCB1 that has been updated n times.
C3_Instance(self, n) ==
    /\ self.overall_total_count = n
    /\ self.overall_total_count = SumValues(self.total_count)

\* C3: for a UCB1 instance, overall_total_count is the number of
\* update_reward calls made on it, and the sum of its per-arm counts.
C3_UCBCount ==
    /\ cls = "UCB1" => C3_Instance(obj, hist.n)
    /\ cls = "CMAB" =>
           \A i \in DOMAIN obj.mab :
               C3_Instance(obj.mab[i][2],
                           SumValues([a \in 1..NumArms |-> <<a, hist.cnt[<<obj.mab[i][1], a>>]>>]))

\* Three updates of a UCB1 over two arms.
C3_Witness ==
    /\ cls = "UCB1"
    /\ op.name = "update_reward"
    /\ obj.overall_total_count = 3
    /\ Len(obj.total_count) = 2

\* C4: for every class, get_reward on an arm never passed to update_reward
\* returns 0, also when other arms have been updated, and get_best_arm on an
\* object that has received no update returns (None, None); neither raises.
C4_UnseenDefaults ==
    /\ (op.name = "get_reward" /\ hist.cnt[<<op.context, op.arm>>] = 0) => ret = 0
    /\ (op.name = "get_best_arm" /\ hist.n = 0) => ret = <<None, None>>

\* A TS that knows another arm is asked for an arm it has never seen.
C4_Witness ==
    /\ cls = "TS"
    /\ op.name = "get_reward"
    /\ hist.cnt[K(op.arm)] = 0
    /\ hist.n > 0
    /\ ret = 0

\* What context y shows is the same before and after the step.
C5_Isolated(y) ==
    /\ CMAB_get_best_arm(obj', y) = CMAB_get_best_arm(obj, y)
    /\ \A arm \in Arms :
           /\ CMAB_get_reward(obj', arm, y) = CMAB_get_reward(obj, arm, y)
           /\ (\A a \in Arms : hist'.cnt[<<y, a>>] = 0) => CMAB_get_reward(obj', arm, y) = 0

\* C5: a CMAB.update_reward under context x changes nothing observable under
\* any other context y: get_reward(arm, y) and get_best_arm(y) return what
\* they returned before, and get_reward(arm, y) is 0 for a y never updated.
\* None is a key like any other.
C5_ContextIsolation ==
    [][(cls = "CMAB" /\ op'.name = "update_reward") =>
           \A y \in Contexts \ {op'.context} : C5_Isolated(y)]_vars

\* An update under one context made while another context holds an estimate.
C5_Witness ==
    /\ cls = "CMAB"
    /\ op.name = "update_reward"
    /\ \E y \in Contexts \ {op.context} : \E arm \in Arms :
           CMAB_get_reward(obj, arm, y) > 0

\* The entry of a context against the updates made under it.
C6_Active(h, self, context) ==
    /\ Has(self.mab, context) <=> (\E arm \in Arms : h.cnt[<<context, arm>>] > 0)
    /\ Has(self.mab, context) =>
           \A arm \in Arms :
               MAB_get_arm_count(Get(self.mab, context), arm) = h.cnt[<<context, arm>>]

\* C6: a context has an entry in CMAB exactly from its first update_reward
\* on (get_reward and get_best_arm create none), it keeps the entry in every
\* later state, and the entry's counts are the updates made under it so far:
\* a later update never resets them.
C6_ContextLifecycle ==
    [][cls = "CMAB" =>
           \A context \in Contexts :
               /\ C6_Active(hist', obj', context)
               /\ Has(obj.mab, context) => Has(obj'.mab, context)]_vars

\* A query under an unknown context, made after two updates under another.
C6_Witness ==
    /\ cls = "CMAB"
    /\ op.name \in {"get_reward", "get_best_arm"}
    /\ ~Has(obj.mab, op.context)
    /\ \E context \in Contexts, arm \in Arms :
           /\ Has(obj.mab, context)
           /\ MAB_get_arm_count(Get(obj.mab, context), arm) = 2

\* The pair (a, e) is the greedy choice in the current state.
C7_Best(a, e) ==
    /\ a \in Arms
    /\ hist.cnt[K(a)] > 0
    /\ e = MAB_get_reward(obj, a)
    /\ \A b \in Arms :
           hist.cnt[K(b)] > 0 =>
               /\ MAB_get_reward(obj, b) <= e
               /\ MAB_get_reward(obj, b) = e =>
                      Pos(FirstUpdated(None), a) <= Pos(FirstUpdated(None), b)

\* C7: for MAB and UCB1 with at least one arm updated, get_best_arm returns
\* (arm, e) with e the arm's estimate, no known arm has a larger estimate,
\* among the arms of maximal estimate the one returned was first updated
\* earliest, and the call changes no stored state.
C7_GreedySelection ==
    [][(cls \in {"MAB", "UCB1"} /\ op'.name = "get_best_arm") =>
           /\ obj' = obj
           /\ hist.n > 0 => C7_Best(ret'[1], ret'[2])]_vars

\* Two arms share the maximal estimate and the one returned is not the one
\* of smaller name: it is the one updated first.
C7_Witness ==
    /\ cls \in {"MAB", "UCB1"}
    /\ op.name = "get_best_arm"
    /\ Len(obj.average_reward) >= 2
    /\ ret[1] = 2
    /\ MAB_get_reward(obj, 1) = ret[2]
    /\ ret[2] > 0

\* The accessors of the class of the object, and a step's effect on the arms.
ArmCount(self, arm) ==
    IF cls = "TS" THEN TS_get_arm_count(self, arm) ELSE MAB_get_arm_count(self, arm)
Estimate(self, arm) ==
    IF cls = "TS" THEN TS_get_reward(self, arm) ELSE MAB_get_reward(self, arm)

C8_Record(h, self, arm) ==
    /\ Has(self.total_count, arm) <=> h.cnt[K(arm)] > 0
    /\ ArmCount(self, arm) = h.cnt[K(arm)]

C8_Step ==
    /\ \A arm \in Arms :
           /\ C8_Record(hist', obj', arm)
           /\ Has(obj.total_count, arm) => Has(obj'.total_count, arm)
           /\ ArmCount(obj', arm) >= ArmCount(obj, arm)
    /\ op'.name = "update_reward" =>
           /\ ArmCount(obj', op'.arm) = ArmCount(obj, op'.arm) + 1
           /\ \A other \in Arms \ {op'.arm} :
                  /\ ArmCount(obj', other) = ArmCount(obj, other)
                  /\ Estimate(obj', other) = Estimate(obj, other)

\* C8: for MAB, UCB1, SoftMax and TS, an arm has a record exactly from its
\* first update_reward on, the record is never deleted or initialised again
\* (its count is the number of the arm's updates), each update_reward(arm, r)
\* raises get_arm_count(arm) by exactly 1 and leaves the count and estimate
\* of every other arm as they were, and no step lowers a count.
C8_ArmLifecycle ==
    [][(cls \in {"MAB", "UCB1", "SoftMax", "TS"}) => C8_Step]_vars

\* A second update of an arm, made when another arm has a record too.
C8_Witness ==
    /\ cls = "TS"
    /\ op.name = "update_reward"
    /\ TS_get_arm_count(obj, op.arm) = 2
    /\ \E other \in Arms \ {op.arm} : TS_get_arm_count(obj, other) = 1

\* The samples of the last TS.get_best_arm call, by position in traversal
\* order, and the positions of the largest.
C9_Maximal ==
    {i \in DOMAIN op.drawn : \A j \in DOMAIN op.drawn : op.drawn[j] <= op.drawn[i]}
C9_Selected == cls = "TS" /\ op.name = "get_best_arm" /\ Len(obj.total_count) > 0

\* C9 as stated: an equal sample does not replace the running best, so of
\* the arms that drew the maximal sample the earliest in traversal order is
\* returned.
C9_EarliestOfTies ==
    C9_Selected =>
        \E i \in C9_Maximal :
            /\ ret[1] = obj.total_count[i][1]
            /\ \A j \in C9_Maximal : i <= j

\* C9 amended: a later arm replaces the running best when its sample is
\* larger or equal, so of the arms that drew the maximal sample the latest in
\* traversal order is returned.
C9_LatestOfTies ==
    C9_Selected =>
        \E i \in C9_Maximal :
            /\ ret[1] = obj.total_count[i][1]
            /\ ret[2] = op.drawn[i]
            /\ \A j \in C9_Maximal : j <= i

\* Two arms drew the same maximal sample.
C9_Witness ==
    /\ C9_Selected
    /\ Cardinality(C9_Maximal) >= 2
    /\ ret[1] = obj.total_count[Len(obj.total_count)][1]

\* The parts of the effect of a TS.get_best_arm step.
C10_Frame ==
    /\ obj'.alpha = obj.alpha
    /\ obj'.beta = obj.beta
    /\ obj'.total_count = obj.total_count
    /\ Keys(obj'.last_drawn) = Keys(obj.last_drawn)

C10_Redrawn ==
    \A i \in DOMAIN obj.total_count :
        TS_get_last_drawn_value(obj', obj.total_count[i][1]) = op'.drawn[i]

C10_Returned ==
    /\ ret'[1] \in KeySet(obj.total_count)
    /\ ret'[2] = TS_get_last_drawn_value(obj', ret'[1])
    /\ ret'[2] >= 0 /\ ret'[2] <= One
    /\ \A b \in KeySet(obj.total_count) : ret'[2] >= TS_get_last_drawn_value(obj', b)

====
